---- MODULE Spec2Model ----
(***************************************************************************)
(* Model of public/scripts/animations.js: the intro runner, the scroll     *)
(* reveal watcher, the shared style helpers and the reduced-motion guard.  *)
(*                                                                         *)
(* An element is its attribute map (a function from attribute names to    *)
(* values); an attribute value is a tuple of one-character strings, so    *)
(* that toLowerCase and Number are computed character by character.       *)
(* Inline style values are strings.  Elements are named by their position *)
(* in the document (1-based DOM order).  Thresholds are in hundredths.    *)
(***************************************************************************)
EXTENDS Integers, Sequences, FiniteSets, TLC

VARIABLES
  dom,            \* the document: a sequence of attribute maps, in DOM order
  style,          \* style[e]: the inline style of element e
  prefersReduced, \* the module-scoped flag read once at script evaluation
  mediaMatches,   \* the host's current reduced-motion preference
  phase,          \* "loading" before DOMContentLoaded, then "loaded"
  rafs,           \* the host's list of pending animation-frame callbacks
  timers,         \* the host's pending timers, in the order they expire
  observer,       \* the IntersectionObserver: created, threshold, targets
  lastEntry,      \* host: the last isIntersecting reported per element
  queuedEntries,  \* host: the observer's queued, undelivered entries
  updates,        \* number of intersection changes the host has produced
  initReduced,    \* history: the preference at the moment the init frame ran
  revealRuns,     \* history: per element, how often the observer callback
                  \*          went through animateIn + clearTransition for it
  changedAfterInit \* history: the change listener has run after the init frame

vars == <<dom, style, prefersReduced, mediaMatches, phase, rafs, timers,
          observer, lastEntry, queuedEntries, updates, initReduced,
          revealRuns, changedAfterInit>>

----------------------------------------------------------------------------
(* Bounds *)

NumElems == 2     \* elements of the document in the lifecycle specification
MaxUpdates == 3   \* intersection changes the host produces in one run
MaxIntro == 3     \* elements of the document in the intro specification
MaxNodes == 45    \* elements of the document in the threshold specification

----------------------------------------------------------------------------
(* Program constants *)

OffsetPx == 10
IntroSettleMs == 20
CleanupMs == 1100
BaseDuration == 900
BaseStagger == 220
RevealDuration == 800
Easing == "cubic-bezier(0.19, 1, 0.22, 1)"

----------------------------------------------------------------------------
(* Attribute values and their conversions *)

S_up == <<"u", "p">>
S_down == <<"d", "o", "w", "n">>
S_left == <<"l", "e", "f", "t">>
S_right == <<"r", "i", "g", "h", "t">>
S_fade == <<"f", "a", "d", "e">>
S_true == <<"t", "r", "u", "e">>
S_false == <<"f", "a", "l", "s", "e">>

UpperCase == <<"A", "B", "C", "D", "E", "F", "G", "H", "I", "J", "K", "L", "M",
               "N", "O", "P", "Q", "R", "S", "T", "U", "V", "W", "X", "Y", "Z">>
LowerCase == <<"a", "b", "c", "d", "e", "f", "g", "h", "i", "j", "k", "l", "m",
               "n", "o", "p", "q", "r", "s", "t", "u", "v", "w", "x", "y", "z">>

LowerChar(c) ==
  IF \E i \in 1..Len(UpperCase) : UpperCase[i] = c
    THEN LowerCase[CHOOSE i \in 1..Len(UpperCase) : UpperCase[i] = c]
    ELSE c

ToLowerCase(s) == [i \in 1..Len(s) |-> LowerChar(s[i])]

Digits == <<"0", "1", "2", "3", "4", "5", "6", "7", "8", "9">>

IsDigit(c) == \E i \in 1..Len(Digits) : Digits[i] = c

DigitVal(c) == (CHOOSE i \in 1..Len(Digits) : Digits[i] = c) - 1

RECURSIVE ParseDigits(_)
ParseDigits(s) ==
  IF s = <<>> THEN 0
  ELSE ParseDigits(SubSeq(s, 1, Len(s) - 1)) * 10 + DigitVal(s[Len(s)])

IsDigits(s) == s # <<>> /\ \A i \in 1..Len(s) : IsDigit(s[i])

NaN == "NaN"

\* Number(string) for the empty string and for decimal integers; any other
\* text is NaN.
Number(s) ==
  IF s = <<>> THEN 0
  ELSE IF IsDigits(s) THEN ParseDigits(s)
  ELSE IF s[1] = "-" /\ IsDigits(Tail(s)) THEN 0 - ParseDigits(Tail(s))
  ELSE NaN

----------------------------------------------------------------------------
(* The document *)

Elems == 1..Len(dom)

hasAttribute(e, name) == name \in DOMAIN dom[e]

\* el.getAttribute(name) || dflt : null and "" are both falsy
getAttributeOr(e, name, dflt) ==
  IF hasAttribute(e, name) /\ dom[e][name] # <<>> THEN dom[e][name] ELSE dflt

RECURSIVE InDocumentOrder(_, _, _)
InDocumentOrder(S, i, n) ==
  IF i > n THEN <<>>
  ELSE (IF i \in S THEN <<i>> ELSE <<>>) \o InDocumentOrder(S, i + 1, n)

\* document.querySelectorAll('[name]'), in document order
querySelectorAll(name) ==
  InDocumentOrder({e \in Elems : hasAttribute(e, name)}, 1, Len(dom))

\* document.querySelectorAll('[data-intro],[data-reveal]')
querySelectorAllFlagged ==
  InDocumentOrder({e \in Elems : hasAttribute(e, "data-intro") \/ hasAttribute(e, "data-reveal")},
                  1, Len(dom))

Flagged == {e \in Elems : hasAttribute(e, "data-intro") \/ hasAttribute(e, "data-reveal")}

----------------------------------------------------------------------------
(* Style helpers *)

EmptyStyle == [opacity |-> "", willChange |-> "", transform |-> "", transition |-> ""]

\* translateFrom without toLowerCase: the switch sees the text as written
translateFromCaseSensitive(from, px) ==
  LET f == IF from = <<>> THEN S_up ELSE from IN
  IF f = S_down THEN "translateY(-" \o ToString(px) \o "px)"
  ELSE IF f = S_left THEN "translateX(" \o ToString(px) \o "px)"
  ELSE IF f = S_right THEN "translateX(-" \o ToString(px) \o "px)"
  ELSE IF f = S_fade THEN "translateZ(0)"
  ELSE "translateY(" \o ToString(px) \o "px)"

translateFrom(from, px) ==
  LET f == ToLowerCase(IF from = <<>> THEN S_up ELSE from) IN
  IF f = S_down THEN "translateY(-" \o ToString(px) \o "px)"
  ELSE IF f = S_left THEN "translateX(" \o ToString(px) \o "px)"
  ELSE IF f = S_right THEN "translateX(-" \o ToString(px) \o "px)"
  ELSE IF f = S_fade THEN "translateZ(0)"
  ELSE "translateY(" \o ToString(px) \o "px)"

setInitialState(st, from) ==
  [st EXCEPT !.opacity = "0",
             !.willChange = "opacity, transform",
             !.transform = translateFrom(from, OffsetPx)]

TransitionText(duration, delay) ==
  "opacity " \o ToString(duration) \o "ms " \o Easing \o " " \o ToString(delay) \o "ms, " \o
  "transform " \o ToString(duration) \o "ms " \o Easing \o " " \o ToString(delay) \o "ms"

\* the style writes of a callback, applied one after the other
RECURSIVE applyWrites(_, _)
applyWrites(st, ws) ==
  IF ws = <<>> THEN st
  ELSE applyWrites([st EXCEPT ![Head(ws).prop] = Head(ws).value], Tail(ws))

\* the end state written first and the transition last: nothing animates
animateInWritesTransitionLast(delay, duration) ==
  << [prop |-> "opacity", value |-> "1"],
     [prop |-> "transform", value |-> "none"],
     [prop |-> "transition", value |-> TransitionText(duration, delay)] >>

\* the writes of animateIn's frame callback, in program order
animateInWrites(delay, duration) ==
  << [prop |-> "transition", value |-> TransitionText(duration, delay)],
     [prop |-> "opacity", value |-> "1"],
     [prop |-> "transform", value |-> "none"] >>

\* the frame callback that animateIn registers
animateInFrame(st, delay, duration) ==
  applyWrites(st, animateInWrites(delay, duration))

\* animateIn(el, {delay, duration}): requestAnimationFrame(...)
animateIn(w, e, delay, duration) ==
  [w EXCEPT !.rafs = Append(@, [kind |-> "animateIn", el |-> e,
                                 delay |-> delay, duration |-> duration])]

\* the timer callback that clearTransition registers
clearTransitionTimeout(st) ==
  [st EXCEPT !.willChange = "", !.transition = "", !.transform = "", !.opacity = ""]

\* clearTransition(el): setTimeout(..., 1100)
clearTransition(w, e) ==
  [w EXCEPT !.timers = Append(@, [kind |-> "cleanup", el |-> e, ms |-> CleanupMs])]

\* showImmediately that leaves a running transition in place
showOneKeepsTransition(st) ==
  [st EXCEPT !.opacity = "1", !.transform = "none", !.willChange = ""]

showOne(st) ==
  [st EXCEPT !.opacity = "1", !.transform = "none", !.transition = "", !.willChange = ""]

showImmediately(styles, nodes) ==
  [e \in DOMAIN styles |->
     IF \E i \in 1..Len(nodes) : nodes[i] = e THEN showOne(styles[e]) ELSE styles[e]]

----------------------------------------------------------------------------
(* Intro runner *)

\* Number(el.getAttribute('data-intro-order') || 0): a missing or empty
\* attribute gives Number(0), which is Number('') = 0
introOrder(e) == Number(getAttributeOr(e, "data-intro-order", <<>>))

\* nodes.sort((a, b) => ao - bo): x goes behind every element whose order is
\* not greater than its own (Array.prototype.sort is stable)
RECURSIVE InsertByOrder(_, _)
InsertByOrder(sorted, x) ==
  IF sorted = <<>> THEN <<x>>
  ELSE IF introOrder(Head(sorted)) - introOrder(x) > 0 THEN <<x>> \o sorted
  ELSE <<Head(sorted)>> \o InsertByOrder(Tail(sorted), x)

\* runIntro without the sort: the nodes stay in document order
sortSkipped(nodes) == nodes

RECURSIVE sortByIntroOrder(_)
sortByIntroOrder(nodes) ==
  IF nodes = <<>> THEN <<>>
  ELSE InsertByOrder(sortByIntroOrder(SubSeq(nodes, 1, Len(nodes) - 1)), nodes[Len(nodes)])

\* the stagger counted from one instead of zero
introDelayOneBased(e, i) ==
  IF hasAttribute(e, "data-intro-delay") THEN Number(dom[e]["data-intro-delay"])
  ELSE (i + 1) * BaseStagger

\* delayAttr !== null ? Number(delayAttr) : i * baseStagger   (i is zero-based)
introDelay(e, i) ==
  IF hasAttribute(e, "data-intro-delay") THEN Number(dom[e]["data-intro-delay"])
  ELSE i * BaseStagger

\* the body of nodes.forEach((el, i) => ...) for the whole sorted list
RECURSIVE introForEach(_, _, _)
introForEach(w, nodes, k) ==
  IF k > Len(nodes) THEN w
  ELSE
    LET e == nodes[k]
        from == getAttributeOr(e, "data-intro-from", S_up)
        delay == introDelay(e, k - 1)
    IN introForEach(
         [w EXCEPT !.style[e] = setInitialState(@, from),
                   !.timers = Append(@, [kind |-> "settle", el |-> e,
                                         ms |-> IntroSettleMs, delay |-> delay])],
         nodes, k + 1)

runIntro(w) ==
  LET nodes == querySelectorAll("data-intro") IN
  IF nodes = <<>> THEN w
  ELSE IF prefersReduced THEN [w EXCEPT !.style = showImmediately(@, nodes)]
  ELSE introForEach(w, sortByIntroOrder(nodes), 1)

\* a 20 ms callback that neither animates nor schedules the cleanup
introSettleTimeoutDoesNothing(w, t) == w

\* the 20 ms callback of runIntro
introSettleTimeout(w, t) ==
  clearTransition(animateIn(w, t.el, t.delay, BaseDuration), t.el)

----------------------------------------------------------------------------
(* Reveal watcher *)

\* the first limit taken inclusively
getDynamicThresholdInclusive(nodes) ==
  LET n == Len(nodes) IN
  IF n >= 40 THEN 5
  ELSE IF n > 20 THEN 10
  ELSE 15

getDynamicThreshold(nodes) ==
  LET n == Len(nodes) IN
  IF n > 40 THEN 5
  ELSE IF n > 20 THEN 10
  ELSE 15

NoObserver == [created |-> FALSE, threshold |-> 0, targets |-> {}]

RECURSIVE prepareForEach(_, _, _)
prepareForEach(styles, targets, k) ==
  IF k > Len(targets) THEN styles
  ELSE
    LET e == targets[k]
        from == getAttributeOr(e, "data-reveal-from", S_up)
    IN prepareForEach([styles EXCEPT ![e] = setInitialState(@, from)], targets, k + 1)

\* setupReveals that leaves out the elements the intro runner animates
setupRevealsSkipsIntro(w) ==
  LET targets == InDocumentOrder({e \in Elems : hasAttribute(e, "data-reveal")
                                               /\ ~hasAttribute(e, "data-intro")},
                                 1, Len(dom)) IN
  IF targets = <<>> THEN w
  ELSE IF prefersReduced THEN [w EXCEPT !.style = showImmediately(@, targets)]
  ELSE [w EXCEPT !.style = prepareForEach(@, targets, 1),
                 !.observer = [created |-> TRUE,
                               threshold |-> getDynamicThreshold(targets),
                               targets |-> {targets[i] : i \in 1..Len(targets)}]]

setupReveals(w) ==
  LET targets == querySelectorAll("data-reveal") IN
  IF targets = <<>> THEN w
  ELSE IF prefersReduced THEN [w EXCEPT !.style = showImmediately(@, targets)]
  ELSE [w EXCEPT !.style = prepareForEach(@, targets, 1),
                 !.observer = [created |-> TRUE,
                               threshold |-> getDynamicThreshold(targets),
                               targets |-> {targets[i] : i \in 1..Len(targets)}]]

\* once unless the attribute says 'false'
revealOnceUnlessFalse(e) ==
  IF ~hasAttribute(e, "data-reveal-once") THEN TRUE
  ELSE dom[e]["data-reveal-once"] # S_false

revealOnce(e) ==
  IF ~hasAttribute(e, "data-reveal-once") THEN TRUE
  ELSE dom[e]["data-reveal-once"] = S_true

\* Number(el.getAttribute('data-reveal-delay') || 0)
revealDelay(e) == Number(getAttributeOr(e, "data-reveal-delay", <<>>))

\* a callback that puts an element back into its hidden state when it
\* leaves the viewport
observerEntryRehides(w, entry) ==
  LET e == entry.target IN
  IF ~entry.isIntersecting
    THEN [w EXCEPT !.style[e] =
            setInitialState(@, getAttributeOr(e, "data-reveal-from", S_up))]
  ELSE
    LET w1 == clearTransition(animateIn(w, e, revealDelay(e), RevealDuration), e)
        w2 == [w1 EXCEPT !.revealRuns[e] = @ + 1]
    IN IF revealOnce(e)
         THEN [w2 EXCEPT !.observer.targets = @ \ {e}]
         ELSE w2

\* the body of entries.forEach(entry => ...) for one entry
observerEntry(w, entry) ==
  LET e == entry.target IN
  IF ~entry.isIntersecting THEN w
  ELSE
    LET w1 == clearTransition(animateIn(w, e, revealDelay(e), RevealDuration), e)
        w2 == [w1 EXCEPT !.revealRuns[e] = @ + 1]
    IN IF revealOnce(e)
         THEN [w2 EXCEPT !.observer.targets = @ \ {e}]
         ELSE w2

RECURSIVE observerCallback(_, _)
observerCallback(w, entries) ==
  IF entries = <<>> THEN w
  ELSE observerCallback(observerEntry(w, Head(entries)), Tail(entries))

----------------------------------------------------------------------------
(* The host's event loop: one action per task the host can run *)

World == [style |-> style, timers |-> timers, rafs |-> rafs,
          observer |-> observer, revealRuns |-> revealRuns]

Booted == initReduced # "pending"

\* document.addEventListener('DOMContentLoaded', ...): requests the init frame
DOMContentLoaded ==
  /\ phase = "loading"
  /\ phase' = "loaded"
  /\ rafs' = Append(rafs, [kind |-> "init"])
  /\ UNCHANGED <<dom, style, prefersReduced, mediaMatches, timers, observer,
                 lastEntry, queuedEntries, updates, initReduced, revealRuns,
                 changedAfterInit>>

\* one frame callback: the init callback or the callback of animateIn
frameCallback(w, cb) ==
  IF cb.kind = "init" THEN setupReveals(runIntro(w))
  ELSE [w EXCEPT !.style[cb.el] = animateInFrame(@, cb.delay, cb.duration)]

RECURSIVE runFrameCallbacks(_, _)
runFrameCallbacks(w, cbs) ==
  IF cbs = <<>> THEN w
  ELSE runFrameCallbacks(frameCallback(w, Head(cbs)), Tail(cbs))

\* The host runs a frame: every callback requested before the frame runs, in
\* the order requested.  A frame may be late by any amount (a hidden tab, a
\* busy main thread), so it interleaves freely with the other tasks.
AnimationFrame ==
  /\ rafs # <<>>
  /\ LET w == runFrameCallbacks([World EXCEPT !.rafs = <<>>], rafs) IN
       /\ style' = w.style
       /\ timers' = w.timers
       /\ rafs' = w.rafs
       /\ observer' = w.observer
       /\ revealRuns' = w.revealRuns
  /\ initReduced' = IF \E i \in 1..Len(rafs) : rafs[i].kind = "init"
                      THEN (IF mediaMatches THEN "yes" ELSE "no")
                      ELSE initReduced
  /\ UNCHANGED <<dom, prefersReduced, mediaMatches, phase, lastEntry,
                 queuedEntries, updates, changedAfterInit>>

timerCallback(w, t) ==
  IF t.kind = "settle" THEN introSettleTimeout(w, t)
  ELSE [w EXCEPT !.style[t.el] = clearTransitionTimeout(@)]

\* The host runs the timer that expires first.  Timers of equal delay expire
\* in the order they were set, and every 20 ms timer is set (by the init
\* frame) before any 1100 ms timer, so the pending timers expire first in,
\* first out.
TimerFires ==
  /\ timers # <<>>
  /\ LET w == timerCallback([World EXCEPT !.timers = Tail(timers)], Head(timers)) IN
       /\ style' = w.style
       /\ timers' = w.timers
       /\ rafs' = w.rafs
       /\ observer' = w.observer
       /\ revealRuns' = w.revealRuns
  /\ UNCHANGED <<dom, prefersReduced, mediaMatches, phase, lastEntry,
                 queuedEntries, updates, initReduced, changedAfterInit>>

\* The host finds that an observed element's intersection changed (the first
\* observation of an element always counts as a change) and queues an entry.
IntersectionChange(e, b) ==
  /\ observer.created
  /\ e \in observer.targets
  /\ updates < MaxUpdates
  /\ lastEntry[e] # (IF b THEN "yes" ELSE "no")
  /\ lastEntry' = [lastEntry EXCEPT ![e] = IF b THEN "yes" ELSE "no"]
  /\ queuedEntries' = Append(queuedEntries, [target |-> e, isIntersecting |-> b])
  /\ updates' = updates + 1
  /\ UNCHANGED <<dom, style, prefersReduced, mediaMatches, phase, rafs, timers,
                 observer, initReduced, revealRuns, changedAfterInit>>

\* The host delivers the queued entries to the observer callback as one batch.
DeliverEntries ==
  /\ queuedEntries # <<>>
  /\ queuedEntries' = <<>>
  /\ LET w == observerCallback(World, queuedEntries) IN
       /\ style' = w.style
       /\ timers' = w.timers
       /\ rafs' = w.rafs
       /\ observer' = w.observer
       /\ revealRuns' = w.revealRuns
  /\ UNCHANGED <<dom, prefersReduced, mediaMatches, phase, lastEntry,
                 updates, initReduced, changedAfterInit>>

\* mq 'change' listener: the user toggles the reduced-motion preference
ReducedMotionChange ==
  /\ mediaMatches' = ~mediaMatches
  /\ style' = showImmediately(style, querySelectorAllFlagged)
  /\ changedAfterInit' = (changedAfterInit \/ Booted)
  /\ UNCHANGED <<dom, prefersReduced, phase, rafs, timers, observer, lastEntry,
                 queuedEntries, updates, initReduced, revealRuns>>

----------------------------------------------------------------------------
(* Documents *)

Attr(name, value) == name :> value

NoAttr == <<>>

\* every sequence of n elements drawn from E
Documents(E, n) == [1..n -> E]

LifecycleElems ==
  {i @@ r : i \in {NoAttr, Attr("data-intro", <<>>)},
            r \in {NoAttr} \cup
                  {Attr("data-reveal", <<>>) @@ o :
                     o \in {NoAttr, Attr("data-reveal-once", S_true),
                                    Attr("data-reveal-once", S_false)}}}

\* the state once the script has been evaluated
InitWith(docs) ==
  /\ dom \in docs
  /\ style = [e \in 1..Len(dom) |-> EmptyStyle]
  /\ prefersReduced \in BOOLEAN
  /\ mediaMatches = prefersReduced
  /\ phase = "loading"
  /\ rafs = <<>>
  /\ timers = <<>>
  /\ observer = NoObserver
  /\ lastEntry = [e \in 1..Len(dom) |-> "none"]
  /\ queuedEntries = <<>>
  /\ updates = 0
  /\ initReduced = "pending"
  /\ revealRuns = [e \in 1..Len(dom) |-> 0]
  /\ changedAfterInit = FALSE

Init == InitWith(Documents(LifecycleElems, NumElems))

Next ==
  \/ DOMContentLoaded
  \/ AnimationFrame
  \/ TimerFires
  \/ \E e \in Elems, b \in BOOLEAN : IntersectionChange(e, b)
  \/ DeliverEntries
  \/ ReducedMotionChange

\* the whole page life: load, frames, timers, scrolling, preference changes
Spec == Init /\ [][Next]_vars

\* Documents of intro elements with and without data-intro-order and
\* data-intro-delay, next to elements that carry no data-intro.
IntroElems ==
  {NoAttr} \cup
  {Attr("data-intro", <<>>) @@ o @@ d :
     o \in {NoAttr, Attr("data-intro-order", <<"-", "1">>),
                    Attr("data-intro-order", <<"2">>),
                    Attr("data-intro-order", <<"1", "0">>)},
     d \in {NoAttr, Attr("data-intro-delay", <<"5", "0">>)}}

InitIntro == InitWith(Documents(IntroElems, MaxIntro))

NextIntro ==
  \/ DOMContentLoaded
  \/ AnimationFrame
  \/ TimerFires

\* the intro runner alone: load, frames and timers
SpecIntro == InitIntro /\ [][NextIntro]_vars

\* every spelling of a word in upper and lower case
Upper(c) ==
  CASE c = "a" -> "A" [] c = "d" -> "D" [] c = "e" -> "E" [] c = "f" -> "F"
    [] c = "g" -> "G" [] c = "h" -> "H" [] c = "i" -> "I" [] c = "l" -> "L"
    [] c = "n" -> "N" [] c = "o" -> "O" [] c = "p" -> "P" [] c = "r" -> "R"
    [] c = "t" -> "T" [] c = "u" -> "U" [] c = "w" -> "W" [] OTHER -> c

Spellings(word) ==
  {s \in [1..Len(word) -> {word[i] : i \in 1..Len(word)} \cup
                           {Upper(word[i]) : i \in 1..Len(word)}] :
     \A i \in 1..Len(word) : s[i] \in {word[i], Upper(word[i])}}

DirectionWords == {S_up, S_down, S_left, S_right, S_fade}

OtherDirections ==
  {<<>>, <<"u">>, <<"u", "p", "s">>, <<" ", "u", "p">>, <<"d", "o", "w", "n", "!">>,
   <<"d", "i", "a", "g", "o", "n", "a", "l">>, <<"n", "o", "n", "e">>}

DirectionValues == (UNION {Spellings(w) : w \in DirectionWords}) \cup OtherDirections

\* one flagged element, with every direction attribute value, and elements
\* that carry both flags
StyleDocs ==
  {<<Attr("data-intro", <<>>)>>, <<Attr("data-reveal", <<>>)>>} \cup
  {<<Attr("data-intro", <<>>) @@ Attr("data-intro-from", v)>> : v \in DirectionValues} \cup
  {<<Attr("data-reveal", <<>>) @@ Attr("data-reveal-from", v)>> : v \in DirectionValues} \cup
  {<<Attr("data-intro", <<>>) @@ Attr("data-reveal", <<>>) @@ i @@ r>> :
     i \in {NoAttr, Attr("data-intro-from", S_down)},
     r \in {NoAttr, Attr("data-reveal-from", <<"L", "E", "F", "T">>)}}

\* n data-reveal elements, the first with or without data-reveal-threshold
ThresholdDocs ==
  {[i \in 1..n |-> IF i = 1 THEN first ELSE Attr("data-reveal", <<>>)] :
     n \in 0..MaxNodes,
     first \in {Attr("data-reveal", <<>>),
                Attr("data-reveal", <<>>) @@ Attr("data-reveal-threshold", <<"0", ".", "5">>)}}

InitBoot == InitWith(StyleDocs \cup ThresholdDocs)

NextBoot ==
  \/ DOMContentLoaded
  \/ AnimationFrame

\* initialization alone: DOMContentLoaded and the init frame
SpecBoot == InitBoot /\ [][NextBoot]_vars

\* one element with each combination of the flags, every kind of
\* data-reveal-once value and with or without data-reveal-delay
ElementElems ==
  {i @@ r : i \in {NoAttr, Attr("data-intro", <<>>)},
            r \in {NoAttr} \cup
                  {Attr("data-reveal", <<>>) @@ o @@ d :
                     o \in {NoAttr, Attr("data-reveal-once", S_true),
                                    Attr("data-reveal-once", S_false),
                                    Attr("data-reveal-once", <<>>),
                                    Attr("data-reveal-once", <<"T", "R", "U", "E">>)},
                     d \in {NoAttr, Attr("data-reveal-delay", <<"1", "2", "0">>)}}}

InitElement == InitWith(Documents(ElementElems, 1))

\* the whole page life of a document of one element
SpecElement == InitElement /\ [][Next]_vars

\* the host runs every task it has queued: the DOMContentLoaded event,
\* frames, expired timers and the delivery of queued entries
FairSpecElement ==
  /\ SpecElement
  /\ WF_vars(DOMContentLoaded)
  /\ WF_vars(AnimationFrame)
  /\ WF_vars(TimerFires)
  /\ WF_vars(DeliverEntries)

----------------------------------------------------------------------------
(* Properties *)

Shown == [opacity |-> "1", willChange |-> "", transform |-> "none", transition |-> ""]

IsIntro(e) == hasAttribute(e, "data-intro")

IsReveal(e) == hasAttribute(e, "data-reveal")

PendingFrames(e) == {i \in 1..Len(rafs) : rafs[i].kind = "animateIn" /\ rafs[i].el = e}

PendingTimers(e, kind) == {i \in 1..Len(timers) : timers[i].kind = kind /\ timers[i].el = e}

\* C1: when the reduced-motion preference is active at the moment runIntro
\* and setupReveals run, every flagged element is and stays at opacity '1',
\* transform 'none' with an empty transition, is never hidden and has no
\* animateIn requested for it.
C1_ReducedAtInitShowsAll ==
  initReduced = "yes" =>
    \A e \in Flagged :
      /\ style[e].opacity = "1"
      /\ style[e].transform = "none"
      /\ style[e].transition = ""
      /\ PendingFrames(e) = {}
      /\ PendingTimers(e, "settle") = {}

\* C2: an element whose once-flag is true goes through animateIn +
\* clearTransition in the observer callback at most once, whatever entries
\* the host delivers and however it batches them.
C2_OnceElementProcessedOnce ==
  \A e \in Elems : (IsReveal(e) /\ revealOnce(e)) => revealRuns[e] <= 1

\* C3: at the end of the reduced-motion change handler every element flagged
\* data-intro or data-reveal has opacity '1', transform 'none' and empty
\* transition and will-change, whatever its animation progress was.
C3_ChangeForcesEndState ==
  [][ReducedMotionChange => \A e \in Flagged : style'[e] = Shown]_vars

\* C3 witness: the handler has run between the 20 ms timer (or the observer
\* callback) and the frame callback of animateIn, on a hidden element.
C3_Witness ==
  /\ changedAfterInit
  /\ \E e \in Flagged : style[e] = Shown /\ PendingFrames(e) # {}
                          /\ PendingTimers(e, "cleanup") # {}

\* C10: the change handler cancels no pending timer or frame callback, and
\* once it has run after initialization no callback leaves a flagged element
\* hidden (opacity '0'), although later callbacks do overwrite the forced
\* state.
C10_ChangeCancelsNothingAndNothingHidesAgain ==
  /\ [](changedAfterInit => \A e \in Flagged : style[e].opacity # "0")
  /\ [][ReducedMotionChange => UNCHANGED <<timers, rafs, queuedEntries, observer>>]_vars

\* C10 witness: after the handler ran, a stray cleanup timer has reset the
\* forced state of a flagged element to empty.
C10_Witness ==
  /\ changedAfterInit
  /\ \E e \in Flagged : style[e] = EmptyStyle

IntroIndex(e) == Cardinality({x \in Elems : x < e /\ IsIntro(x)})

NoOrderOrDelay ==
  \A e \in Elems : ~hasAttribute(e, "data-intro-order") /\ ~hasAttribute(e, "data-intro-delay")

\* C4: when no data-intro element has data-intro-order or data-intro-delay,
\* the i-th intro element in DOM order (from zero) is animated with delay
\* i * 220 and duration 900, and every intro element is.
C4_DefaultStagger ==
  NoOrderOrDelay =>
    /\ \A i \in 1..Len(timers) :
         timers[i].kind = "settle" => timers[i].delay = IntroIndex(timers[i].el) * 220
    /\ \A i \in 1..Len(rafs) :
         rafs[i].kind = "animateIn" =>
           /\ rafs[i].delay = IntroIndex(rafs[i].el) * 220
           /\ rafs[i].duration = 900
    /\ \A e \in Elems :
         /\ style[e].transition # "" =>
              style[e].transition = TransitionText(900, IntroIndex(e) * 220)
         /\ (IsIntro(e) /\ style[e].opacity = "0") =>
              Cardinality(PendingTimers(e, "settle")) + Cardinality(PendingFrames(e)) = 1

\* C4 witness: three plain intro elements, the third about to be animated
\* with delay 440.
C4_Witness ==
  /\ NoOrderOrDelay
  /\ Len(dom) >= 3
  /\ \A e \in Elems : IsIntro(e)
  /\ \E i \in 1..Len(rafs) :
       rafs[i].kind = "animateIn" /\ rafs[i].el = 3 /\ rafs[i].delay = 440

\* the intro elements in the order runIntro went through them, as long as
\* their callbacks are pending: the 20 ms timers, then the frame callbacks
Precedes(a, b) ==
  \/ introOrder(a) < introOrder(b)
  \/ introOrder(a) = introOrder(b) /\ a < b

InProcessingOrder(q, kind) ==
  \A i, j \in 1..Len(q) :
    (i < j /\ q[i].kind = kind /\ q[j].kind = kind) =>
      /\ Precedes(q[i].el, q[j].el)
      /\ (~hasAttribute(q[i].el, "data-intro-delay") /\ ~hasAttribute(q[j].el, "data-intro-delay")
           /\ introOrder(q[i].el) < introOrder(q[j].el)) => q[i].delay < q[j].delay

\* C5: runIntro goes through the intro elements in ascending numeric
\* data-intro-order (a missing order is 0), elements of equal order in DOM
\* order; of two elements without data-intro-delay the one of smaller order
\* gets the strictly smaller delay.
C5_AscendingOrderStable ==
  /\ InProcessingOrder(timers, "settle")
  /\ InProcessingOrder(rafs, "animateIn")

\* C5 witness: an element later in the document is processed first because
\* of its order, while two elements of equal order keep their DOM order.
C5_Witness ==
  /\ Len(timers) = 3
  /\ \A i \in 1..3 : timers[i].kind = "settle"
  /\ timers[1].el = 3
  /\ timers[2].el = 1
  /\ timers[3].el = 2
  /\ introOrder(1) = introOrder(2)
  /\ timers[1].delay = 0
  /\ timers[2].delay = 220

\* C6: the cleanup runs 1100 ms after clearTransition is called, which is
\* after the end of the element's transition: 1100 exceeds delay + duration
\* of every animateIn that the intro runner or the reveal watcher requests.
C6_CleanupAfterTransitionEnds ==
  \A i \in 1..Len(rafs) :
    rafs[i].kind = "animateIn" => 1100 > rafs[i].delay + rafs[i].duration

RevealCount == Cardinality({e \in Elems : IsReveal(e)})

Hundredths(s) ==
  IF s = <<"1">> THEN 100
  ELSE IF Len(s) = 3 THEN 10 * DigitVal(s[3])
  ELSE IF Len(s) = 4 THEN 10 * DigitVal(s[3]) + DigitVal(s[4])
  ELSE 0

\* C8: an element's data-reveal-threshold is the intersection threshold at
\* which that element is revealed.
C8_ThresholdAttributeUsed ==
  observer.created =>
    \A e \in observer.targets :
      hasAttribute(e, "data-reveal-threshold") =>
        observer.threshold = Hundredths(dom[e]["data-reveal-threshold"])

HiddenTransform(v) ==
  IF v \in Spellings(S_down) THEN "translateY(-10px)"
  ELSE IF v \in Spellings(S_left) THEN "translateX(10px)"
  ELSE IF v \in Spellings(S_right) THEN "translateX(-10px)"
  ELSE IF v \in Spellings(S_fade) THEN "translateZ(0)"
  ELSE "translateY(10px)"

HiddenTransformOf(e, name) ==
  IF hasAttribute(e, name) THEN HiddenTransform(dom[e][name]) ELSE "translateY(10px)"

\* C9: initialization hides every flagged element with opacity '0' and the
\* offset of its direction, read without regard to case: down, left, right
\* and fade as named, and translateY(10px) for 'up' and for a missing, empty
\* or unrecognized direction.  (The reveal direction, applied last, decides
\* for an element that carries both flags.)
C9_HiddenStateByDirection ==
  (Booted /\ ~prefersReduced) =>
    \A e \in Flagged :
      /\ style[e].opacity = "0"
      /\ style[e].willChange = "opacity, transform"
      /\ style[e].transform =
           (IF IsReveal(e) THEN HiddenTransformOf(e, "data-reveal-from")
            ELSE HiddenTransformOf(e, "data-intro-from"))

\* C9 witness: a mixed-case 'Right' on a reveal element gives translateX(-10px)
C9_Witness ==
  /\ Booted
  /\ \E e \in Flagged :
       /\ hasAttribute(e, "data-reveal-from")
       /\ dom[e]["data-reveal-from"] = <<"R", "i", "g", "h", "t">>
       /\ style[e].opacity = "0"
       /\ style[e].transform = "translateX(-10px)"

QueuedFor(e) == {i \in 1..Len(queuedEntries) : queuedEntries[i].target = e}

\* animateIn has been called for e, by the intro runner or by the observer
AnimateInCalled(e) ==
  \/ Booted /\ ~prefersReduced /\ IsIntro(e) /\ PendingTimers(e, "settle") = {}
  \/ revealRuns[e] > 0

NothingPending(e) ==
  /\ PendingTimers(e, "settle") = {}
  /\ PendingTimers(e, "cleanup") = {}
  /\ PendingFrames(e) = {}
  /\ QueuedFor(e) = {}

\* C11: once every timer and frame callback scheduled for an animated
\* element has run, in whatever order the host ran them, its inline
\* transition, transform, opacity and will-change are all empty (no change
\* of the reduced-motion preference having forced its style since).
C11_NothingLeftBehind ==
  \A e \in Elems :
    (AnimateInCalled(e) /\ NothingPending(e) /\ ~changedAfterInit) =>
      style[e] = EmptyStyle

\* data-reveal-once is present and is not 'true'
OnceAttrNotTrue(e) ==
  /\ IsReveal(e)
  /\ hasAttribute(e, "data-reveal-once")
  /\ dom[e]["data-reveal-once"] # S_true

IntersectingQueued(e) == {i \in QueuedFor(e) : queuedEntries[i].isIntersecting}

\* C12: an element whose data-reveal-once is anything other than 'true' is
\* observed from initialization on and stays observed; a delivered batch
\* calls animateIn and sets a cleanup timer once for each of its
\* intersecting entries and does nothing else to it; and after
\* initialization no step takes its opacity back to '0'.
C12_NotOnceStaysObserved ==
  /\ [](\A e \in Elems :
         (OnceAttrNotTrue(e) /\ Booted /\ ~prefersReduced) => e \in observer.targets)
  /\ [][\A e \in Elems : OnceAttrNotTrue(e) =>
         /\ e \in observer.targets => e \in observer.targets'
         /\ DeliverEntries =>
              /\ revealRuns'[e] = revealRuns[e] + Cardinality(IntersectingQueued(e))
              /\ Cardinality(PendingFrames(e))' =
                   Cardinality(PendingFrames(e)) + Cardinality(IntersectingQueued(e))
              /\ Cardinality(PendingTimers(e, "cleanup"))' =
                   Cardinality(PendingTimers(e, "cleanup")) + Cardinality(IntersectingQueued(e))
              /\ style'[e] = style[e]
         /\ (Booted /\ style[e].opacity # "0") => style'[e].opacity # "0"]_vars

\* C12 witness: an element with data-reveal-once="TRUE" has been animated
\* twice, is revealed and is still observed.
C12_Witness ==
  \E e \in Elems :
    /\ OnceAttrNotTrue(e)
    /\ dom[e]["data-reveal-once"] = <<"T", "R", "U", "E">>
    /\ revealRuns[e] = 2
    /\ e \in observer.targets
    /\ style[e].opacity = "1"
    /\ lastEntry[e] = "yes"

InitFramePending == \E i \in 1..Len(rafs) : rafs[i].kind = "init"

SettleTimerNext == timers # <<>> /\ Head(timers).kind = "settle"

WritePosition(ws, prop, value) ==
  {i \in 1..Len(ws) : ws[i].prop = prop /\ ws[i].value = value}

\* the steps of the intro pass, one conjunct per callback
C13_Steps ==
  /\ (InitFramePending /\ ~prefersReduced /\ AnimationFrame) =>
       \A e \in Elems : IsIntro(e) =>
         /\ style'[e].opacity = "0"
         /\ style'[e].willChange = "opacity, transform"
         /\ Cardinality(PendingTimers(e, "settle"))' = 1
         /\ \A i \in PendingTimers(e, "settle")' : timers'[i].ms = 20
  /\ (SettleTimerNext /\ TimerFires) =>
       /\ rafs' = Append(rafs, [kind |-> "animateIn", el |-> Head(timers).el,
                                 delay |-> Head(timers).delay, duration |-> 900])
       /\ timers' = Append(Tail(timers), [kind |-> "cleanup", el |-> Head(timers).el,
                                           ms |-> 1100])
       /\ style' = style
  /\ (~InitFramePending /\ AnimationFrame) =>
       \A e \in Elems : PendingFrames(e) # {} =>
         /\ style'[e].opacity = "1"
         /\ style'[e].transform = "none"
         /\ style'[e].transition # ""

\* C13: with reduced motion off, runIntro hides every intro element and sets
\* its 20 ms timer in the init frame; that timer's callback both requests
\* the animate-in frame and sets the 1100 ms cleanup timer and writes no
\* style; the frame callback writes the transition before opacity '1' and
\* transform 'none'; and no animate-in write reaches an element before its
\* hidden state was written (while its 20 ms timer is pending it is hidden,
\* without transition).
C13_IntroStepOrder ==
  /\ [](\A e \in Elems :
         /\ (IsIntro(e) /\ ~Booted) => (style[e] = EmptyStyle /\ PendingFrames(e) = {})
         /\ PendingTimers(e, "settle") # {} =>
              /\ style[e].opacity = "0"
              /\ style[e].transition = ""
              /\ PendingFrames(e) = {}
              /\ PendingTimers(e, "cleanup") = {})
  /\ [](\A i \in 1..Len(rafs) : rafs[i].kind = "animateIn" =>
         LET ws == animateInWrites(rafs[i].delay, rafs[i].duration)
             t == WritePosition(ws, "transition", TransitionText(rafs[i].duration, rafs[i].delay))
             o == WritePosition(ws, "opacity", "1")
             x == WritePosition(ws, "transform", "none")
         IN /\ t # {} /\ o # {} /\ x # {}
            /\ \A a \in t, b \in o \cup x : a < b)
  /\ [][C13_Steps]_vars

\* C13 witness: the 20 ms timer of the second intro element has fired; the
\* element is still hidden, its frame is requested and its cleanup timer set.
C13_Witness ==
  /\ ~prefersReduced
  /\ Len(dom) >= 2
  /\ IsIntro(2)
  /\ style[2].opacity = "0"
  /\ Cardinality(PendingFrames(2)) = 1
  /\ Cardinality(PendingTimers(2, "cleanup")) = 1

IsPrefix(p, q) == Len(p) <= Len(q) /\ SubSeq(q, 1, Len(p)) = p

\* the steps of one page load, as far as the two passes are concerned
C14_Steps ==
  /\ phase = "loaded" => phase' = "loaded"
  /\ Booted =>
       /\ Booted'
       /\ ~InitFramePending'
       /\ observer.targets' \subseteq observer.targets
       /\ \A e \in Elems :
            Cardinality(PendingTimers(e, "settle"))' <= Cardinality(PendingTimers(e, "settle"))
  /\ (InitFramePending /\ ~prefersReduced /\ AnimationFrame) =>
       \A e \in Elems :
         /\ Cardinality(PendingTimers(e, "settle"))' = (IF IsIntro(e) THEN 1 ELSE 0)
         /\ e \in observer.targets' <=> IsReveal(e)
  /\ TimerFires => (observer' = observer /\ revealRuns' = revealRuns)
  /\ (~InitFramePending /\ AnimationFrame) => (observer' = observer /\ revealRuns' = revealRuns)
  /\ DeliverEntries =>
       /\ IsPrefix(timers, timers')
       /\ IsPrefix(rafs, rafs')
       /\ \A e \in Elems :
            Cardinality(PendingTimers(e, "settle"))' = Cardinality(PendingTimers(e, "settle"))

\* C14: in one page load the init frame runs once; it puts each data-intro
\* element through the intro pass once and registers each data-reveal
\* element with the observer once; afterwards no intro pass starts and the
\* observed set only shrinks, so an unobserved element is never observed
\* again; an element with both flags gets its intro timer and its
\* registration alike, and the callbacks of one pass leave the pending
\* work of the other alone.
C14_OnePassOneRegistration ==
  /\ [](/\ Cardinality({i \in 1..Len(rafs) : rafs[i].kind = "init"}) <= 1
        /\ ~Booted => (observer.targets = {} /\ timers = <<>>)
        /\ \A e \in Elems : Cardinality(PendingTimers(e, "settle")) <= 1)
  /\ [][C14_Steps]_vars

\* C14 witness: an element with both flags has been revealed and unobserved
\* while the 20 ms timer of its intro pass is still pending.
C14_Witness ==
  \E e \in Elems :
    /\ IsIntro(e) /\ IsReveal(e)
    /\ revealRuns[e] = 1
    /\ e \notin observer.targets
    /\ Cardinality(PendingTimers(e, "settle")) = 1

\* C15: when the host runs every task it has queued, a data-intro element
\* present at initialization ends up with an opacity other than '0' for
\* good, and so does a data-reveal element from the moment an intersecting
\* entry is queued for it, whenever the reduced-motion preference changes.
C15_NeverHiddenForever ==
  /\ IsIntro(1) => <>[](style[1].opacity # "0")
  /\ [](IntersectingQueued(1) # {} => <>[](style[1].opacity # "0"))

\* C15 witness: an intro element that the init frame hid has been animated
\* in, with no preference change having shown it.
C15_Witness ==
  /\ IsIntro(1)
  /\ ~IsReveal(1)
  /\ ~prefersReduced
  /\ ~changedAfterInit
  /\ Booted
  /\ style[1].opacity = "1"
  /\ style[1].transition # ""

====
